---- MODULE Spec2Model ----
(***************************************************************************)
(* readability/stats/common_scores.py: the six readability scores          *)
(* GFI, ARI, FRE, FKGL, SMOG and REL.  Each function takes a text (a list  *)
(* of sentences, which are lists of word strings) and an optional          *)
(* statistics mapping; it returns a float or raises.                       *)
(*                                                                         *)
(* Python values are modelled as tagged records, Python's len() and        *)
(* iteration as the operators len and iter below, and floats as exact      *)
(* rationals <<numerator, denominator>> in lowest terms (the square root   *)
(* of SMOG is kept symbolic: a SMOG score is 1.043*sqrt(q) + 3.1291 and    *)
(* the model stores the radicand q).                                       *)
(***************************************************************************)
EXTENDS Integers, Sequences, FiniteSets, TLC

VARIABLES text, statistics, syllablesplit, called, result

vars == <<text, statistics, syllablesplit, called, result>>

\* Bounds of the explored inputs.
MaxSentences == 2
MaxWords == 3
MaxSyl == 5

(***************************************************************************)
(* Python values                                                           *)
(***************************************************************************)
\* Every value carries the same fields: its type t, its number n (the value of
\* an int, the length of a str) and its elements v (of a list).  A str is
\* known by its length alone: the code looks at nothing else of a token, and
\* the syllable counter is an arbitrary function of the token.
None == [t |-> "none", n |-> 0, v |-> <<>>]
PyInt(n) == [t |-> "int", n |-> n, v |-> <<>>]
PyStr(n) == [t |-> "str", n |-> n, v |-> <<>>]
PyList(s) == [t |-> "list", n |-> 0, v |-> s]

\* The statistics mapping, and the value of statistics when it is None.
Dict(d) == [t |-> "dict", d |-> d]
NoStatistics ==
    [t |-> "none",
     d |-> [totalWords |-> 0, totalSentences |-> 0, totalCharacters |-> 0,
            totalSyllables |-> 0, totalLongWords |-> 0, nbPolysyllables |-> 0]]

\* len(x): defined on str and list, TypeError otherwise.
sized(x) == x.t \in {"str", "list"}
len(x) == IF x.t = "str" THEN x.n ELSE Len(x.v)

\* for e in x: a list yields its elements, a str its one-character strings.
iter(x) == IF x.t = "str" THEN [i \in 1..x.n |-> PyStr(1)] ELSE x.v

(***************************************************************************)
(* Exact arithmetic standing for the float arithmetic of the formulas      *)
(***************************************************************************)
Abs(n) == IF n < 0 THEN -n ELSE n

RECURSIVE GCD(_, _)
GCD(a, b) == IF b = 0 THEN a ELSE GCD(b, a % b)

Norm(n, d) ==
    LET g == GCD(Abs(n), Abs(d))
        s == IF d < 0 THEN -1 ELSE 1
    IN  <<(s * n) \div g, (s * d) \div g>>

Num(n) == <<n, 1>>
Dec(n, d) == Norm(n, d)
RAdd(a, b) == Norm(a[1] * b[2] + b[1] * a[2], a[2] * b[2])
RSub(a, b) == Norm(a[1] * b[2] - b[1] * a[2], a[2] * b[2])
RMul(a, b) == Norm(a[1] * b[1], a[2] * b[2])
RDiv(a, b) == Norm(a[1] * b[2], a[2] * b[1])

(***************************************************************************)
(* Outcomes of a call                                                      *)
(***************************************************************************)
NoValue == <<0, 0>>

Return(form, value, textRead, sylCalls) ==
    [status |-> "ok", form |-> form, value |-> value,
     textRead |-> textRead, sylCalls |-> sylCalls]

Raise(exception, textRead, sylCalls) ==
    [status |-> exception, form |-> "none", value |-> NoValue,
     textRead |-> textRead, sylCalls |-> sylCalls]

NotCalled == [status |-> "none", form |-> "none", value |-> NoValue,
              textRead |-> FALSE, sylCalls |-> 0]

(***************************************************************************)
(* GFI_score                                                               *)
(***************************************************************************)
\* Variant: an empty text scores 0 instead of raising.
GFI_formula_guarded(totalWords, totalSentences, totalLongWords, textRead) ==
    IF totalSentences = 0 THEN Return("rational", Num(0), textRead, 0)
    ELSE Return("rational",
                RMul(Dec(4, 10),
                     RAdd(RDiv(Num(totalWords), Num(totalSentences)),
                          RDiv(Num(100 * totalLongWords), Num(totalSentences)))),
                textRead, 0)

\* Variant: the docstring's formula, complex words / words.
GFI_formula_textbook(totalWords, totalSentences, totalLongWords, textRead) ==
    IF totalSentences = 0 \/ totalWords = 0 THEN Raise("ZeroDivisionError", textRead, 0)
    ELSE Return("rational",
                RMul(Dec(4, 10),
                     RAdd(RDiv(Num(totalWords), Num(totalSentences)),
                          RDiv(Num(100 * totalLongWords), Num(totalWords)))),
                textRead, 0)

GFI_formula(totalWords, totalSentences, totalLongWords, textRead) ==
    IF totalSentences = 0 THEN Raise("ZeroDivisionError", textRead, 0)
    ELSE Return("rational",
                RMul(Dec(4, 10),
                     RAdd(RDiv(Num(totalWords), Num(totalSentences)),
                          RDiv(Num(100 * totalLongWords), Num(totalSentences)))),
                textRead, 0)

\* Variant: six characters count as long.
isLongWord_atLeast6(token) == len(token) >= 6

isLongWord(token) == len(token) > 6

RECURSIVE GFI_loop(_, _, _, _)
GFI_loop(sents, i, totalWords, totalLongWords) ==
    IF i > Len(sents)
    THEN [err |-> FALSE, totalWords |-> totalWords, totalLongWords |-> totalLongWords]
    ELSE LET sent == sents[i] IN
         IF ~sized(sent) \/ \E k \in 1..Len(iter(sent)) : ~sized(iter(sent)[k])
         THEN [err |-> TRUE, totalWords |-> totalWords, totalLongWords |-> totalLongWords]
         ELSE GFI_loop(sents, i + 1, totalWords + len(sent),
                       totalLongWords
                         + Cardinality({k \in 1..Len(iter(sent)) : isLongWord(iter(sent)[k])}))

GFI_score(txt, stats) ==
    IF stats # NoStatistics
    THEN GFI_formula(stats.d.totalWords, stats.d.totalSentences, stats.d.totalLongWords, FALSE)
    ELSE IF ~sized(txt) THEN Raise("TypeError", TRUE, 0)
    ELSE LET acc == GFI_loop(iter(txt), 1, 0, 0) IN
         IF acc.err THEN Raise("TypeError", TRUE, 0)
         ELSE GFI_formula(acc.totalWords, len(txt), acc.totalLongWords, TRUE)

(***************************************************************************)
(* ARI_score                                                               *)
(***************************************************************************)
\* Variant: a text without words scores 0 instead of raising.
ARI_formula_noWords(totalCharacters, totalWords, totalSentences, textRead) ==
    IF totalSentences = 0 THEN Raise("ZeroDivisionError", textRead, 0)
    ELSE IF totalWords = 0 THEN Return("rational", Num(0), textRead, 0)
    ELSE Return("rational",
                RSub(RMul(Dec(471, 100),
                          RAdd(RDiv(Num(totalCharacters), Num(totalWords)),
                               RDiv(RMul(Dec(5, 10), Num(totalWords)), Num(totalSentences)))),
                     Dec(2143, 100)),
                textRead, 0)

\* Variant: the docstring's formula, 4.71 on the first ratio only.
ARI_formula_textbook(totalCharacters, totalWords, totalSentences, textRead) ==
    IF totalWords = 0 \/ totalSentences = 0 THEN Raise("ZeroDivisionError", textRead, 0)
    ELSE Return("rational",
                RSub(RAdd(RMul(Dec(471, 100), RDiv(Num(totalCharacters), Num(totalWords))),
                          RDiv(RMul(Dec(5, 10), Num(totalWords)), Num(totalSentences))),
                     Dec(2143, 100)),
                textRead, 0)

ARI_formula(totalCharacters, totalWords, totalSentences, textRead) ==
    IF totalWords = 0 \/ totalSentences = 0 THEN Raise("ZeroDivisionError", textRead, 0)
    ELSE Return("rational",
                RSub(RMul(Dec(471, 100),
                          RAdd(RDiv(Num(totalCharacters), Num(totalWords)),
                               RDiv(RMul(Dec(5, 10), Num(totalWords)), Num(totalSentences)))),
                     Dec(2143, 100)),
                textRead, 0)

RECURSIVE sum_len(_)
sum_len(tokens) == IF tokens = <<>> THEN 0 ELSE len(Head(tokens)) + sum_len(Tail(tokens))

RECURSIVE ARI_loop(_, _, _, _)
ARI_loop(sents, i, totalWords, totalCharacters) ==
    IF i > Len(sents)
    THEN [err |-> FALSE, totalWords |-> totalWords, totalCharacters |-> totalCharacters]
    ELSE LET sent == sents[i] IN
         IF ~sized(sent) \/ \E k \in 1..Len(iter(sent)) : ~sized(iter(sent)[k])
         THEN [err |-> TRUE, totalWords |-> totalWords, totalCharacters |-> totalCharacters]
         ELSE ARI_loop(sents, i + 1, totalWords + len(sent),
                       totalCharacters + sum_len(iter(sent)))

ARI_score(txt, stats) ==
    IF stats # NoStatistics
    THEN ARI_formula(stats.d.totalCharacters, stats.d.totalWords, stats.d.totalSentences, FALSE)
    ELSE IF ~sized(txt) THEN Raise("TypeError", TRUE, 0)
    ELSE LET acc == ARI_loop(iter(txt), 1, 0, 0) IN
         IF acc.err THEN Raise("TypeError", TRUE, 0)
         ELSE ARI_formula(acc.totalCharacters, acc.totalWords, len(txt), TRUE)

(***************************************************************************)
(* The syllable counter utils.syllablesplit, applied to the word tokens of *)
(* one sentence                                                            *)
(***************************************************************************)
RECURSIVE sum_syllables(_)
sum_syllables(tokens) ==
    IF tokens = <<>> THEN 0
    ELSE syllablesplit[Head(tokens)] + sum_syllables(Tail(tokens))

(***************************************************************************)
(* FRE_score                                                               *)
(***************************************************************************)
FRE_formula(totalWords, totalSentences, totalSyllables, textRead, sylCalls) ==
    IF totalSentences = 0 \/ totalWords = 0
    THEN Raise("ZeroDivisionError", textRead, sylCalls)
    ELSE Return("rational",
                RSub(RSub(Dec(206835, 1000),
                          RMul(Dec(1015, 1000), RDiv(Num(totalWords), Num(totalSentences)))),
                     RMul(Dec(846, 10), RDiv(Num(totalSyllables), Num(totalWords)))),
                textRead, sylCalls)

RECURSIVE FRE_loop(_, _, _, _)
FRE_loop(sents, i, totalWords, totalSyllables) ==
    IF i > Len(sents)
    THEN [err |-> FALSE, totalWords |-> totalWords, totalSyllables |-> totalSyllables]
    ELSE LET sent == sents[i] IN
         IF ~sized(sent)
         THEN [err |-> TRUE, totalWords |-> totalWords, totalSyllables |-> totalSyllables]
         ELSE FRE_loop(sents, i + 1, totalWords + len(sent),
                       totalSyllables + sum_syllables(iter(sent)))

\* Variant: a usable text is preferred to the statistics.
FRE_score_textFirst(txt, stats) ==
    IF stats # NoStatistics /\ ~sized(txt)
    THEN FRE_formula(stats.d.totalWords, stats.d.totalSentences, stats.d.totalSyllables, FALSE, 0)
    ELSE IF ~sized(txt) THEN Raise("TypeError", TRUE, 0)
    ELSE LET acc == FRE_loop(iter(txt), 1, 0, 0) IN
         IF acc.err THEN Raise("TypeError", TRUE, acc.totalWords)
         ELSE FRE_formula(acc.totalWords, len(txt), acc.totalSyllables, TRUE, acc.totalWords)

FRE_score(txt, stats) ==
    IF stats # NoStatistics
    THEN FRE_formula(stats.d.totalWords, stats.d.totalSentences, stats.d.totalSyllables, FALSE, 0)
    ELSE IF ~sized(txt) THEN Raise("TypeError", TRUE, 0)
    ELSE LET acc == FRE_loop(iter(txt), 1, 0, 0) IN
         IF acc.err THEN Raise("TypeError", TRUE, acc.totalWords)
         ELSE FRE_formula(acc.totalWords, len(txt), acc.totalSyllables, TRUE, acc.totalWords)

(***************************************************************************)
(* FKGL_score                                                              *)
(***************************************************************************)
FKGL_formula(totalWords, totalSentences, totalSyllables, textRead, sylCalls) ==
    IF totalSentences = 0 \/ totalWords = 0
    THEN Raise("ZeroDivisionError", textRead, sylCalls)
    ELSE Return("rational",
                RSub(RAdd(RMul(Dec(39, 100), RDiv(Num(totalWords), Num(totalSentences))),
                          RMul(Dec(118, 10), RDiv(Num(totalSyllables), Num(totalWords)))),
                     Dec(1559, 100)),
                textRead, sylCalls)

RECURSIVE FKGL_loop(_, _, _, _)
FKGL_loop(sents, i, totalWords, totalSyllables) ==
    IF i > Len(sents)
    THEN [err |-> FALSE, totalWords |-> totalWords, totalSyllables |-> totalSyllables]
    ELSE LET sent == sents[i] IN
         IF ~sized(sent)
         THEN [err |-> TRUE, totalWords |-> totalWords, totalSyllables |-> totalSyllables]
         ELSE FKGL_loop(sents, i + 1, totalWords + len(sent),
                        totalSyllables + sum_syllables(iter(sent)))

FKGL_score(txt, stats) ==
    IF stats # NoStatistics
    THEN FKGL_formula(stats.d.totalWords, stats.d.totalSentences, stats.d.totalSyllables, FALSE, 0)
    ELSE IF ~sized(txt) THEN Raise("TypeError", TRUE, 0)
    ELSE LET acc == FKGL_loop(iter(txt), 1, 0, 0) IN
         IF acc.err THEN Raise("TypeError", TRUE, acc.totalWords)
         ELSE FKGL_formula(acc.totalWords, len(txt), acc.totalSyllables, TRUE, acc.totalWords)

(***************************************************************************)
(* SMOG_score                                                              *)
(***************************************************************************)
\* math.sqrt(q): ValueError (math domain error) for a negative argument.
\* The root itself stays symbolic: the returned score is 1.043*sqrt(q) + 3.1291.
\* Variant: a root that yields NaN for a negative argument (as numpy.sqrt).
math_sqrt_nan(q, textRead, sylCalls) ==
    IF q[1] < 0 THEN Return("nan", NoValue, textRead, sylCalls)
    ELSE Return("smog", q, textRead, sylCalls)

math_sqrt(q, textRead, sylCalls) ==
    IF q[1] < 0 THEN Raise("ValueError", textRead, sylCalls)
    ELSE Return("smog", q, textRead, sylCalls)

SMOG_formula(nbPolysyllables, totalSentences, textRead, sylCalls) ==
    IF totalSentences = 0 THEN Raise("ZeroDivisionError", textRead, sylCalls)
    ELSE math_sqrt(RMul(Num(nbPolysyllables), RDiv(Num(30), Num(totalSentences))),
                   textRead, sylCalls)

isPolysyllable(word) == syllablesplit[word] >= 3

\* Variant: the commented-out line 137, one per polysyllabic token.
sum_polysyllables_count(tokens) ==
    Cardinality({k \in 1..Len(tokens) : isPolysyllable(tokens[k])})

RECURSIVE sum_polysyllables(_)
sum_polysyllables(tokens) ==
    IF tokens = <<>> THEN 0
    ELSE (IF isPolysyllable(Head(tokens)) THEN syllablesplit[Head(tokens)] ELSE 0)
         + sum_polysyllables(Tail(tokens))

\* Calls of the syllable counter made for one sentence: one per token by the
\* filter, one more per token that passes it.
polysyllable_calls(tokens) ==
    Len(tokens) + Cardinality({k \in 1..Len(tokens) : isPolysyllable(tokens[k])})

RECURSIVE SMOG_loop(_, _, _, _)
SMOG_loop(sents, i, nbPolysyllables, sylCalls) ==
    IF i > Len(sents)
    THEN [err |-> FALSE, nbPolysyllables |-> nbPolysyllables, sylCalls |-> sylCalls]
    ELSE LET sent == sents[i] IN
         IF ~sized(sent)
         THEN [err |-> TRUE, nbPolysyllables |-> nbPolysyllables, sylCalls |-> sylCalls]
         ELSE SMOG_loop(sents, i + 1,
                        nbPolysyllables + sum_polysyllables(iter(sent)),
                        sylCalls + polysyllable_calls(iter(sent)))

SMOG_score(txt, stats) ==
    IF stats # NoStatistics
    THEN SMOG_formula(stats.d.nbPolysyllables, stats.d.totalSentences, FALSE, 0)
    ELSE IF ~sized(txt) THEN Raise("TypeError", TRUE, 0)
    ELSE LET acc == SMOG_loop(iter(txt), 1, 0, 0) IN
         IF acc.err THEN Raise("TypeError", TRUE, acc.sylCalls)
         ELSE SMOG_formula(acc.nbPolysyllables, len(txt), TRUE, acc.sylCalls)

(***************************************************************************)
(* REL_score                                                               *)
(***************************************************************************)
\* Variant: the coefficients of FRE left in place.
REL_formula_fre(totalWords, totalSentences, totalSyllables, textRead, sylCalls) ==
    IF totalSentences = 0 \/ totalWords = 0
    THEN Raise("ZeroDivisionError", textRead, sylCalls)
    ELSE Return("rational",
                RSub(RSub(Dec(206835, 1000),
                          RMul(Dec(1015, 1000), RDiv(Num(totalWords), Num(totalSentences)))),
                     RMul(Dec(846, 10), RDiv(Num(totalSyllables), Num(totalWords)))),
                textRead, sylCalls)

REL_formula(totalWords, totalSentences, totalSyllables, textRead, sylCalls) ==
    IF totalSentences = 0 \/ totalWords = 0
    THEN Raise("ZeroDivisionError", textRead, sylCalls)
    ELSE Return("rational",
                RSub(RSub(Num(207),
                          RMul(Dec(1015, 1000), RDiv(Num(totalWords), Num(totalSentences)))),
                     RMul(Dec(736, 10), RDiv(Num(totalSyllables), Num(totalWords)))),
                textRead, sylCalls)

RECURSIVE REL_loop(_, _, _, _)
REL_loop(sents, i, totalWords, totalSyllables) ==
    IF i > Len(sents)
    THEN [err |-> FALSE, totalWords |-> totalWords, totalSyllables |-> totalSyllables]
    ELSE LET sent == sents[i] IN
         IF ~sized(sent)
         THEN [err |-> TRUE, totalWords |-> totalWords, totalSyllables |-> totalSyllables]
         ELSE REL_loop(sents, i + 1, totalWords + len(sent),
                       totalSyllables + sum_syllables(iter(sent)))

REL_score(txt, stats) ==
    IF stats # NoStatistics
    THEN REL_formula(stats.d.totalWords, stats.d.totalSentences, stats.d.totalSyllables, FALSE, 0)
    ELSE IF ~sized(txt) THEN Raise("TypeError", TRUE, 0)
    ELSE LET acc == REL_loop(iter(txt), 1, 0, 0) IN
         IF acc.err THEN Raise("TypeError", TRUE, acc.totalWords)
         ELSE REL_formula(acc.totalWords, len(txt), acc.totalSyllables, TRUE, acc.totalWords)

(***************************************************************************)
(* Inputs: the arguments of a call and the syllable counter in use         *)
(***************************************************************************)
Words == {PyStr(6), PyStr(7)}

\* The strings the syllable counter is applied to: the word tokens, and the
\* one-character strings that iterating a str yields.
SylDomain == Words \cup {PyStr(1)}

\* Every counter from strings to 0..MaxSyl that gives one character at most
\* one syllable.
SylCounters == {f \in [SylDomain -> 0..MaxSyl] : f[PyStr(1)] <= 1}

RECURSIVE SeqsUpTo(_, _)
SeqsUpTo(S, n) ==
    IF n = 0 THEN {<<>>}
    ELSE LET shorter == SeqsUpTo(S, n - 1) IN
         shorter \cup {Append(s, x) : s \in {q \in shorter : Len(q) = n - 1}, x \in S}

Sentences == {PyList(s) : s \in SeqsUpTo(Words, MaxWords)}

RECURSIVE SumLen(_)
SumLen(s) == IF s = <<>> THEN 0 ELSE len(Head(s)) + SumLen(Tail(s))

\* list(list(str)): at most MaxSentences sentences and MaxWords tokens in all.
WellFormedTexts ==
    {PyList(s) : s \in {q \in SeqsUpTo(Sentences, MaxSentences) : SumLen(q) <= MaxWords}}

\* Two sentences, ten words, four of them longer than six characters.
GFIExampleText ==
    LET sent == PyList(<<PyStr(7), PyStr(7), PyStr(6), PyStr(6), PyStr(6)>>)
    IN  PyList(<<sent, sent>>)

FlatText == PyList(<<PyStr(6), PyStr(7)>>)

\* Values of text that are not a list of lists of strings.
OtherTexts ==
    { None,
      PyInt(5),
      PyList(<<PyInt(1), PyInt(2)>>),
      PyList(<<PyList(<<PyStr(7)>>), PyInt(1)>>),
      FlatText,
      PyStr(7) }

StatisticsBundles ==
    [ totalWords      : {0, 1, 10},
      totalSentences  : 0..MaxSentences,
      totalCharacters : {0, 40},
      totalSyllables  : {0, 1, MaxSyl},
      totalLongWords  : {0, 4},
      nbPolysyllables : {-1, 0, 9} ]

\* Values of text passed along with a statistics bundle.
BundleTexts == {None, PyInt(5), PyList(<<>>), PyList(<<PyList(<<PyStr(7)>>)>>), FlatText}

BundleCounters == {f \in SylCounters : f[PyStr(1)] = 0 /\ f[PyStr(6)] = f[PyStr(7)]}

Init ==
    /\ \/ /\ statistics = NoStatistics
          /\ text \in WellFormedTexts \cup {GFIExampleText} \cup OtherTexts
          /\ syllablesplit \in SylCounters
       \/ /\ statistics \in {Dict(b) : b \in StatisticsBundles}
          /\ text \in BundleTexts
          /\ syllablesplit \in BundleCounters
    /\ called = "none"
    /\ result = NotCalled

(***************************************************************************)
(* One call of one of the six functions                                    *)
(***************************************************************************)
Call_GFI_score ==
    /\ called = "none"
    /\ called' = "GFI_score"
    /\ result' = GFI_score(text, statistics)
    /\ UNCHANGED <<text, statistics, syllablesplit>>

Call_ARI_score ==
    /\ called = "none"
    /\ called' = "ARI_score"
    /\ result' = ARI_score(text, statistics)
    /\ UNCHANGED <<text, statistics, syllablesplit>>

Call_FRE_score ==
    /\ called = "none"
    /\ called' = "FRE_score"
    /\ result' = FRE_score(text, statistics)
    /\ UNCHANGED <<text, statistics, syllablesplit>>

Call_FKGL_score ==
    /\ called = "none"
    /\ called' = "FKGL_score"
    /\ result' = FKGL_score(text, statistics)
    /\ UNCHANGED <<text, statistics, syllablesplit>>

Call_SMOG_score ==
    /\ called = "none"
    /\ called' = "SMOG_score"
    /\ result' = SMOG_score(text, statistics)
    /\ UNCHANGED <<text, statistics, syllablesplit>>

Call_REL_score ==
    /\ called = "none"
    /\ called' = "REL_score"
    /\ result' = REL_score(text, statistics)
    /\ UNCHANGED <<text, statistics, syllablesplit>>

Next ==
    \/ Call_GFI_score
    \/ Call_ARI_score
    \/ Call_FRE_score
    \/ Call_FKGL_score
    \/ Call_SMOG_score
    \/ Call_REL_score

Spec == Init /\ [][Next]_vars

(***************************************************************************)
(* Vocabulary of the properties                                            *)
(***************************************************************************)
Returned == called # "none"
RawPath == statistics = NoStatistics
StatisticsPath == statistics # NoStatistics

Score(fn, txt, stats) ==
    CASE fn = "GFI_score"  -> GFI_score(txt, stats)
      [] fn = "ARI_score"  -> ARI_score(txt, stats)
      [] fn = "FRE_score"  -> FRE_score(txt, stats)
      [] fn = "FKGL_score" -> FKGL_score(txt, stats)
      [] fn = "SMOG_score" -> SMOG_score(txt, stats)
      [] fn = "REL_score"  -> REL_score(txt, stats)

\* A list of sentences that are lists of strings.
IsWellFormed(T) ==
    /\ T.t = "list"
    /\ \A i \in 1..Len(T.v) :
          /\ T.v[i].t = "list"
          /\ \A k \in 1..Len(T.v[i].v) : T.v[i].v[k].t = "str"

RECURSIVE Flatten(_)
Flatten(sents) == IF sents = <<>> THEN <<>> ELSE Head(sents).v \o Flatten(Tail(sents))

RECURSIVE SumTo(_, _)
SumTo(f, n) == IF n = 0 THEN 0 ELSE f[n] + SumTo(f, n - 1)

\* The aggregates of a well-formed text, counted over its tokens by hand.
Aggregate(T) ==
    LET toks == Flatten(T.v)
        n == Len(toks)
        syl(k) == syllablesplit[toks[k]]
    IN  [ totalWords      |-> n,
          totalSentences  |-> Len(T.v),
          totalCharacters |-> SumTo([k \in 1..n |-> len(toks[k])], n),
          totalSyllables  |-> SumTo([k \in 1..n |-> syl(k)], n),
          totalLongWords  |-> Cardinality({k \in 1..n : len(toks[k]) > 6}),
          nbPolysyllables |-> SumTo([k \in 1..n |-> IF syl(k) >= 3 THEN syl(k) ELSE 0], n) ]

\* The counts a call works from, whichever path it takes.
Counts == IF StatisticsPath THEN statistics.d ELSE Aggregate(text)
HasCounts == StatisticsPath \/ IsWellFormed(text)

SameOutcome(r1, r2) ==
    r1.status = r2.status /\ r1.form = r2.form /\ r1.value = r2.value

(***************************************************************************)
(* C1: for every well-formed text T and every syllable counter, each of    *)
(* the six functions called with text=T, statistics=None has the same      *)
(* outcome (the same score) as when called with the statistics bundle      *)
(* aggregated by hand from T.                                              *)
(***************************************************************************)
C1_PathsAgree ==
    (Returned /\ RawPath /\ IsWellFormed(text))
        => SameOutcome(result, Score(called, None, Dict(Aggregate(text))))

C1_Witness ==
    /\ called = "SMOG_score" /\ RawPath /\ IsWellFormed(text)
    /\ Len(text.v) = 2
    /\ Aggregate(text).totalLongWords >= 1
    /\ Aggregate(text).nbPolysyllables > 0
    /\ result.status = "ok"

(***************************************************************************)
(* C2: with a statistics bundle the outcome depends on the bundle only:    *)
(* any other value of text gives the same result, the text is not read     *)
(* and the syllable counter is not called.                                 *)
(***************************************************************************)
C2_StatisticsOnly ==
    (Returned /\ StatisticsPath)
        => /\ ~result.textRead
           /\ result.sylCalls = 0
           /\ \A t \in BundleTexts \cup OtherTexts \cup {GFIExampleText} :
                 Score(called, t, statistics) = result

C2_Witness ==
    /\ called = "FRE_score" /\ StatisticsPath
    /\ text = PyInt(5)
    /\ result.status = "ok"

(***************************************************************************)
(* C3: with totalSentences = 0 in the bundle, or with no bundle and an     *)
(* empty text, every function raises the division error and returns no     *)
(* score, whatever the other counts are.                                   *)
(***************************************************************************)
C3_NoSentences ==
    (/\ Returned
     /\ \/ StatisticsPath /\ statistics.d.totalSentences = 0
        \/ RawPath /\ sized(text) /\ len(text) = 0)
        => result.status = "ZeroDivisionError" /\ result.form = "none"

C3_Witness ==
    /\ called = "SMOG_score" /\ StatisticsPath
    /\ statistics.d.totalSentences = 0
    /\ statistics.d.nbPolysyllables < 0
    /\ result.status = "ZeroDivisionError"

(***************************************************************************)
(* C4: with totalSentences >= 1 and totalWords = 0 (in the bundle, or a    *)
(* raw text made of empty sentences only) a function raises the division   *)
(* error exactly when its formula divides by words: ARI, FRE, FKGL and REL *)
(* raise it, GFI returns a score, and SMOG returns a score unless the      *)
(* bundle's nbPolysyllables is negative.                                   *)
(***************************************************************************)
DividesByWords == {"ARI_score", "FRE_score", "FKGL_score", "REL_score"}

NoWords ==
    /\ Returned /\ HasCounts
    /\ Counts.totalSentences >= 1
    /\ Counts.totalWords = 0

C4_NoWords ==
    NoWords
        => /\ result.status = "ZeroDivisionError" <=> called \in DividesByWords
           /\ called = "GFI_score" => result.status = "ok"
           /\ (called = "SMOG_score" /\ Counts.nbPolysyllables >= 0) => result.status = "ok"

C4_Witness ==
    /\ NoWords /\ RawPath
    /\ Len(text.v) = 2
    /\ called = "FRE_score"
    /\ result.status = "ZeroDivisionError"

\* C4 as first stated: GFI and SMOG always return a score there.
C4_Original ==
    NoWords
        => IF called \in DividesByWords
           THEN result.status = "ZeroDivisionError"
           ELSE result.status = "ok"

Coefficients(fn) ==
    CASE fn = "FRE_score"  -> <<206835, -1015, -84600>>
      [] fn = "FKGL_score" -> <<-15590, 390, 11800>>
      [] fn = "REL_score"  -> <<207000, -1015, -73600>>

C8_Flesch ==
    (/\ Returned /\ called \in {"FRE_score", "FKGL_score", "REL_score"} /\ HasCounts
     /\ Counts.totalSentences >= 1 /\ Counts.totalWords >= 1)
        => LET c == Coefficients(called)
               W == Counts.totalWords
               S == Counts.totalSentences
               Y == Counts.totalSyllables
           IN  /\ result.status = "ok" /\ result.form = "rational"
               /\ result.value = Norm(c[1] * S * W + c[2] * W * W + c[3] * Y * S, 1000 * S * W)
               /\ (called = "FRE_score" /\ W = 1 /\ S = 1 /\ Y = 1)
                     => result.value = Norm(12122, 100)

C8_Witness ==
    /\ called = "FRE_score" /\ RawPath
    /\ text = PyList(<<PyList(<<PyStr(6)>>)>>)
    /\ syllablesplit[PyStr(6)] = 1
    /\ result.value = Norm(12122, 100)

(***************************************************************************)
(* C9: SMOG_score given a bundle with a negative nbPolysyllables and       *)
(* totalSentences >= 1 raises the domain error and returns no value; on    *)
(* the raw-text path the accumulated nbPolysyllables is never negative     *)
(* and the domain error never arises.                                      *)
(***************************************************************************)
C9_Domain ==
    (Returned /\ called = "SMOG_score")
        => /\ (/\ StatisticsPath
               /\ statistics.d.nbPolysyllables < 0
               /\ statistics.d.totalSentences >= 1)
                 => result.status = "ValueError" /\ result.form = "none"
           /\ RawPath
                 => /\ result.status # "ValueError"
                    /\ sized(text) => SMOG_loop(iter(text), 1, 0, 0).nbPolysyllables >= 0

C9_Witness ==
    /\ called = "SMOG_score" /\ StatisticsPath
    /\ statistics.d.nbPolysyllables < 0
    /\ statistics.d.totalSentences = 2
    /\ result.status = "ValueError"

(***************************************************************************)
(* C10: with statistics=None and a text that is not a list of sentences    *)
(* that are lists of string tokens (None, a number, a list of numbers, a   *)
(* flat list of token strings), every function fails with an error and     *)
(* returns no score.                                                       *)
(***************************************************************************)
Malformed(T) == ~IsWellFormed(T) /\ T.t # "str"

C10_MalformedFails ==
    (Returned /\ RawPath /\ Malformed(text)) => result.status # "ok"

====
